---------------------------- MODULE Spec2Model ----------------------------
(***************************************************************************)
(* A model of mdtodocu.py: the outline parser (parse_summary), the file    *)
(* and image lookup (find_source_file, find_image_in_directory), the       *)
(* content resolver (process_include_statements, update_image_paths), the  *)
(* tree materializer (create_directory_structure) and the asset            *)
(* reconciler (verify_images_in_markdown).                                 *)
(*                                                                         *)
(* Each component has its own group of variables and its own               *)
(* specification; a specification holds the other groups at their idle     *)
(* value.                                                                  *)
(***************************************************************************)
EXTENDS Integers, Sequences, FiniteSets, TLC

VARIABLES
    \* parse_summary
    lines, p_position, p_hierarchy, p_pc,
    \* find_image_in_directory
    lk_files, lk_name, lk_todo, lk_result, lk_pc,
    \* create_directory_structure
    hierarchy, t_found, has_children, t_i, current_level, current_path,
    t_cursor, t_descent, t_dest, t_cat, category, t_dirs, t_pc,
    \* process_include_statements, update_image_paths and the write of line 316
    c_fs, c_segs, c_title, c_text, c_pos, c_out, c_included, c_written, c_pc,
    \* verify_images_in_markdown
    v_refs, v_src, v_nested, v_imgdir, v_img, v_img0, v_k, missing_images,
    v_log, v_logExists, v_wrote, v_copies, v_run, v_log1, v_logExists1, v_copies1, v_pc

parseVars  == <<lines, p_position, p_hierarchy, p_pc>>
lookupVars == <<lk_files, lk_name, lk_todo, lk_result, lk_pc>>
treeVars   == <<hierarchy, t_found, has_children, t_i, current_level, current_path,
                t_cursor, t_descent, t_dest, t_cat, category, t_dirs, t_pc>>
contentVars == <<c_fs, c_segs, c_title, c_text, c_pos, c_out, c_included, c_written, c_pc>>
verifyVars == <<v_refs, v_src, v_nested, v_imgdir, v_img, v_img0, v_k, missing_images,
                v_log, v_logExists, v_wrote, v_copies, v_run, v_log1, v_logExists1,
                v_copies1, v_pc>>
vars       == <<parseVars, lookupVars, treeVars, contentVars, verifyVars>>

\* what an action of one component leaves alone
notParse   == <<lookupVars, treeVars, contentVars, verifyVars>>
notLookup  == <<parseVars, treeVars, contentVars, verifyVars>>
notTree    == <<parseVars, lookupVars, contentVars, verifyVars>>
notContent == <<parseVars, lookupVars, treeVars, verifyVars>>
notVerify  == <<parseVars, lookupVars, treeVars, contentVars>>

\* Python's None, a record so that it compares with the records of the model
None == [none |-> TRUE]

(***************************************************************************)
(* Generic helpers.                                                        *)
(***************************************************************************)
\* All sequences over S of length 0..n.
SeqsUpTo(S, n) == UNION {[1..k -> S] : k \in 0..n}

\* p is a prefix of q: the path q is p or lies beneath it
IsPrefix(p, q) == Len(p) <= Len(q) /\ SubSeq(q, 1, Len(p)) = p

\* str.lower() on the strings the model uses.
Lower(s) ==
    CASE s = "A"     -> "a"
      [] s = "B"     -> "b"
      [] s = ".GIF"  -> ".gif"
      [] s = ".Gif"  -> ".gif"
      [] s = ".PNG"  -> ".png"
      [] s = ".JPG"  -> ".jpg"
      [] s = ".MD"   -> ".md"
      [] OTHER       -> s

(***************************************************************************)
(* parse_summary                                                           *)
(*                                                                         *)
(* A line of the outline document is a record of the parts the entry       *)
(* pattern of line 20 looks at: the leading whitespace, the "- " bullet,   *)
(* whether a [title](path) link follows, and the path (directory part,     *)
(* stem, extension).                                                       *)
(***************************************************************************)
MaxLines == 3

ParseIndents == {0, 2, 3}
ParseTitles  == {"Intro", " Usage "}
ParseDirs    == {"", "docs/"}

EntryLines ==
    [indent : ParseIndents, bullet : {"- "}, link : {TRUE},
     title : ParseTitles, dir : ParseDirs, stem : {"a"}, ext : {".md"}]

OtherLines ==
    { [indent |-> 0, bullet |-> "- ", link |-> TRUE,  title |-> "Intro", dir |-> "", stem |-> "a", ext |-> ".txt"],
      [indent |-> 0, bullet |-> "* ", link |-> TRUE,  title |-> "Intro", dir |-> "", stem |-> "a", ext |-> ".md"],
      [indent |-> 0, bullet |-> "",   link |-> FALSE, title |-> "",      dir |-> "", stem |-> "",  ext |-> ""] }

Lines == EntryLines \cup OtherLines

\* re.match of line 20: whitespace, "- ", [title], (path ending in .md)
EntryMatch(line) == line.bullet = "- " /\ line.link /\ line.ext = ".md"

\* str.strip() on the titles of the model
Strip(s) == IF s = " Usage " THEN "Usage" ELSE s

\* a parser that numbers the entries instead of the lines
EntryNodeRenumbered(line, position) ==
    [indentation |-> line.indent,
     filename    |-> line.stem,
     title       |-> Strip(line.title),
     position    |-> Len(p_hierarchy) + 1]

\* the tuple appended for a matched line
EntryNode(line, position) ==
    [indentation |-> line.indent,
     filename    |-> line.stem,          \* os.path.basename drops line.dir
     title       |-> Strip(line.title),
     position    |-> position]

ParseInit ==
    /\ lines \in SeqsUpTo(Lines, MaxLines)
    /\ p_position = 0
    /\ p_hierarchy = <<>>
    /\ p_pc = "loop"

ParseIdle ==
    /\ lines = <<>>
    /\ p_position = 0
    /\ p_hierarchy = <<>>
    /\ p_pc = "idle"

\* one iteration of  for position, line in enumerate(lines, start=1)
ParseLine ==
    /\ p_pc = "loop"
    /\ p_position < Len(lines)
    /\ p_position' = p_position + 1
    /\ p_hierarchy' =
          IF EntryMatch(lines[p_position + 1])
          THEN Append(p_hierarchy, EntryNode(lines[p_position + 1], p_position + 1))
          ELSE p_hierarchy
    /\ UNCHANGED <<lines, p_pc>>
    /\ UNCHANGED notParse

\* return hierarchy
ParseReturn ==
    /\ p_pc = "loop"
    /\ p_position = Len(lines)
    /\ p_pc' = "done"
    /\ UNCHANGED <<lines, p_position, p_hierarchy>>
    /\ UNCHANGED notParse

(***************************************************************************)
(* find_image_in_directory                                                 *)
(*                                                                         *)
(* A file name is the pair os.path.splitext gives: base and extension.     *)
(* os.walk visits the files of the tree in an order the file system        *)
(* chooses: lk_todo holds the files not yet visited.                       *)
(***************************************************************************)
MaxFiles == 2

Bases == {"a", "A", "b"}
Exts  == {".gif", ".GIF", ".png", ".PNG", ".jpg", ""}
Names == [base : Bases, ext : Exts]

\* valid_extensions = [ext, '.jpg', '.jpeg', '.png']
valid_extensions(ext) == {ext, ".jpg", ".jpeg", ".png"}

\* the test of line 83
ImageMatch(file, image_name) ==
    /\ Lower(file.base) = Lower(image_name.base)
    /\ Lower(file.ext) \in valid_extensions(image_name.ext)

LookupInit ==
    /\ lk_files \in {F \in SUBSET Names : Cardinality(F) <= MaxFiles}
    /\ lk_name \in Names
    /\ lk_todo = lk_files
    /\ lk_result = None
    /\ lk_pc = "walk"

LookupIdle ==
    /\ lk_files = {}
    /\ lk_name = None
    /\ lk_todo = {}
    /\ lk_result = None
    /\ lk_pc = "idle"

\* the walk visits one more file; the first match is returned
LookupVisit ==
    /\ lk_pc = "walk"
    /\ \E file \in lk_todo :
          /\ lk_todo' = lk_todo \ {file}
          /\ IF ImageMatch(file, lk_name)
             THEN lk_result' = file /\ lk_pc' = "done"
             ELSE UNCHANGED <<lk_result, lk_pc>>
    /\ UNCHANGED <<lk_files, lk_name>>
    /\ UNCHANGED notLookup

\* the walk is over: return None
LookupMiss ==
    /\ lk_pc = "walk"
    /\ lk_todo = {}
    /\ lk_pc' = "done"
    /\ UNCHANGED <<lk_files, lk_name, lk_todo, lk_result>>
    /\ UNCHANGED notLookup

(***************************************************************************)
(* create_directory_structure                                              *)
(*                                                                         *)
(* A path is the sequence of its components.  A node's filename is         *)
(* modelled by its stem: every filename parse_summary returns ends in      *)
(* ".md", so os.path.splitext(filename)[0] is the stem and two filenames   *)
(* are equal exactly when their stems are.  t_found is the set of          *)
(* filenames find_source_file finds under the search directory.            *)
(*                                                                         *)
(* t_cursor, t_descent, t_dest and t_cat record, per processed node, the   *)
(* cursor after the level adjustment, the directory and _category_.json    *)
(* written by a descent, the destination of the content file, and the      *)
(* _category_.json written for a node that has children.                   *)
(***************************************************************************)
MaxNodes == 3

TreeIndents == {0, 1, 2, 4}
TreeFiles   == {"a", "b"}
Titles      == <<"T1", "T2", "T3", "T4", "T5">>

\* main(): output_dir = f"docu_book/{userinput}"
OutputDir == <<"docu_book", "book">>

\* the outlines parse_summary can return: positions are line numbers,
\* here with or without one leading line that is no entry
Outlines ==
    UNION { { [i \in 1..n |-> [indentation |-> ind[i], filename |-> fn[i],
                                title |-> Titles[i], position |-> i + gap]] :
                ind \in [1..n -> TreeIndents], fn \in [1..n -> TreeFiles] } :
            n \in 0..MaxNodes, gap \in 0..1 }

\* level = indentation // 2
Level(node) == node.indentation \div 2

\* the pre-pass of lines 250-256: a set of filenames
HasChildren(h) ==
    { h[i].filename : i \in { j \in 1..Len(h) :
                                 /\ j + 1 <= Len(h)
                                 /\ Level(h[j + 1]) > Level(h[j]) } }

\* hierarchy[hierarchy.index(node) - 1]: the tuples of an outline are
\* distinct (their positions are), so index(node) is the node's own index,
\* and Python's index -1 is the last element
ParentIndex(h, i) == IF i = 1 THEN Len(h) ELSE i - 1

\* os.path.dirname
Dirname(path) == IF path = <<>> THEN <<>> ELSE SubSeq(path, 1, Len(path) - 1)

\* for _ in range(n): current_path = os.path.dirname(current_path)
RECURSIVE Ascend(_, _)
Ascend(path, n) == IF n <= 0 THEN path ELSE Ascend(Dirname(path), n - 1)

\* lines 260-279: the cursor after node i, from the cursor ctx before it
AdjustCursor(h, i, ctx) ==
    LET level == Level(h[i])
    IN  IF level > ctx.level
        THEN [level |-> level,
              path  |-> Append(ctx.path, h[ParentIndex(h, i)].filename)]
        ELSE IF level < ctx.level
        THEN [level |-> level, path |-> Ascend(ctx.path, ctx.level - level)]
        ELSE [level |-> level, path |-> ctx.path]

\* a materializer that looks the source file up first and skips a missing
\* node before it adjusts the cursor
NextCursorSkipsMissing(i) ==
    IF hierarchy[i].filename \in t_found
    THEN AdjustCursor(hierarchy, i, [level |-> current_level, path |-> current_path])
    ELSE [level |-> current_level, path |-> current_path]

\* the cursor is adjusted before the source file is looked up
NextCursor(i) ==
    AdjustCursor(hierarchy, i, [level |-> current_level, path |-> current_path])

\* lines 288-299
Destination(path, node) ==
    IF node.filename \in has_children
    THEN [dir |-> Append(path, node.filename), name |-> node.filename]
    ELSE [dir |-> path, name |-> node.filename]

\* create_category_json(directory, label, position) on the metadata files
WriteCategory(cat, directory, label, position) ==
    [d \in DOMAIN cat \cup {directory} |->
        IF d = directory THEN [label |-> label, position |-> position] ELSE cat[d]]

TreeInit ==
    /\ hierarchy \in Outlines
    /\ t_found \in SUBSET TreeFiles
    /\ has_children = {}
    /\ t_i = 0
    /\ current_level = 0
    /\ current_path = OutputDir
    /\ t_cursor = <<>>
    /\ t_descent = <<>>
    /\ t_dest = <<>>
    /\ t_cat = <<>>
    /\ category = <<>>
    /\ t_dirs = {}
    /\ t_pc = "prepass"

TreeIdle ==
    /\ hierarchy = <<>>
    /\ t_found = {}
    /\ has_children = {}
    /\ t_i = 0
    /\ current_level = 0
    /\ current_path = <<>>
    /\ t_cursor = <<>>
    /\ t_descent = <<>>
    /\ t_dest = <<>>
    /\ t_cat = <<>>
    /\ category = <<>>
    /\ t_dirs = {}
    /\ t_pc = "idle"

\* lines 249-256
PrePass ==
    /\ t_pc = "prepass"
    /\ has_children' = HasChildren(hierarchy)
    /\ t_pc' = "loop"
    /\ UNCHANGED <<hierarchy, t_found, t_i, current_level, current_path,
                   t_cursor, t_descent, t_dest, t_cat, category, t_dirs>>
    /\ UNCHANGED notTree

\* one iteration of the loop of line 258
ProcessNode ==
    /\ t_pc = "loop"
    /\ t_i < Len(hierarchy)
    /\ LET i        == t_i + 1
           node     == hierarchy[i]
           ctx      == NextCursor(i)
           parent   == hierarchy[ParentIndex(hierarchy, i)]
           descends == Level(node) > current_level
           isFound  == node.filename \in t_found
           dest     == Destination(ctx.path, node)
           ownDir   == isFound /\ node.filename \in has_children
           cat1     == IF descends
                       THEN WriteCategory(category, ctx.path, parent.title, parent.position)
                       ELSE category
           cat2     == IF ownDir
                       THEN WriteCategory(cat1, dest.dir, node.title, node.position)
                       ELSE cat1
       IN  /\ t_i' = i
           /\ current_level' = ctx.level
           /\ current_path' = ctx.path
           /\ t_cursor' = Append(t_cursor, ctx.path)
           /\ t_descent' = Append(t_descent,
                  IF descends
                  THEN [dir |-> ctx.path, label |-> parent.title, position |-> parent.position]
                  ELSE None)
           /\ t_dest' = Append(t_dest, IF isFound THEN dest ELSE None)
           /\ t_cat' = Append(t_cat,
                  IF ownDir
                  THEN [dir |-> dest.dir, label |-> node.title, position |-> node.position]
                  ELSE None)
           /\ category' = cat2
           /\ t_dirs' = t_dirs \cup (IF descends THEN {ctx.path} ELSE {})
                               \cup (IF isFound THEN {dest.dir} ELSE {})
    /\ UNCHANGED <<hierarchy, t_found, has_children, t_pc>>
    /\ UNCHANGED notTree

\* the loop is over
TreeReturn ==
    /\ t_pc = "loop"
    /\ t_i = Len(hierarchy)
    /\ t_pc' = "done"
    /\ UNCHANGED <<hierarchy, t_found, has_children, t_i, current_level, current_path,
                   t_cursor, t_descent, t_dest, t_cat, category, t_dirs>>
    /\ UNCHANGED notTree

(***************************************************************************)
(* The content resolver: process_include_statements, update_image_paths    *)
(* and the write of the content file (lines 301-316).                      *)
(*                                                                         *)
(* A text is a sequence of characters.  The characters the two patterns    *)
(* tell apart are kept: quote, colon, space, newline ("NL"), slash and the *)
(* characters of the image syntax.  A run of other characters is one       *)
(* character of the model: "W" is !!wiki.include, "p" is page, "M" is the  *)
(* extension .md, "img" is img, "x", "y", "a", "A", "t", "u", "d", "i"     *)
(* are words.                                                              *)
(***************************************************************************)
MaxSegs == 3

RECURSIVE Concat(_)
Concat(ss) == IF ss = <<>> THEN <<>> ELSE Head(ss) \o Concat(Tail(ss))

\* the smallest index k >= from with t[k] in S, or 0
FirstIn(t, from, S) ==
    LET ks == {k \in from..Len(t) : t[k] \in S}
    IN  IF ks = {} THEN 0 ELSE CHOOSE k \in ks : \A m \in ks : k <= m

LowerSeq(t) == [k \in 1..Len(t) |-> Lower(t[k])]

NoMatch == [start |-> 0]

\* the literal  !!wiki\.include page:  of line 201
IncludePrefix == <<"W", " ", "p", ":">>

\* \s
Whitespace == {" ", "NL"}

\* include_pattern matched at index i, with the alternatives tried in the
\* order of line 201: 'collection:filename' (a greedy run without colon, a
\* colon, a greedy run without quote, a quote), 'filename', and a run
\* without whitespace
IncludeMatchAt(t, i) ==
    IF ~(i + 3 <= Len(t) /\ SubSeq(t, i, i + 3) = IncludePrefix)
    THEN NoMatch
    ELSE LET j      == i + 4
             quoted == j <= Len(t) /\ t[j] = "'"
             c      == FirstIn(t, j + 1, {":"})
             q1     == IF c = 0 THEN 0 ELSE FirstIn(t, c + 1, {"'"})
             q2     == FirstIn(t, j + 1, {"'"})
             w      == FirstIn(t, j, Whitespace)
             e      == IF w = 0 THEN Len(t) ELSE w - 1
         IN  IF quoted /\ c >= j + 2 /\ q1 >= c + 2
             THEN [start |-> i, end |-> q1,
                   collection |-> SubSeq(t, j + 1, c - 1),
                   filename   |-> SubSeq(t, c + 1, q1 - 1)]
             ELSE IF quoted /\ q2 >= j + 2
             THEN [start |-> i, end |-> q2,
                   collection |-> <<>>,
                   filename   |-> SubSeq(t, j + 1, q2 - 1)]
             ELSE IF e >= j
             THEN [start |-> i, end |-> e,
                   collection |-> <<>>,
                   filename   |-> SubSeq(t, j, e)]
             ELSE NoMatch

\* the leftmost match at or after pos (re.sub scans from left to right)
NextIncludeMatch(t, pos) ==
    LET is == {i \in pos..Len(t) : IncludeMatchAt(t, i).start # 0}
    IN  IF is = {} THEN NoMatch
        ELSE IncludeMatchAt(t, CHOOSE i \in is : \A m \in is : i <= m)

\* lines 218-219: append .md unless the name ends with it
WithMd(name) ==
    IF name # <<>> /\ name[Len(name)] = "M" THEN name ELSE Append(name, "M")

\* str.split('/') of a path, as the operating system reads it
RECURSIVE SplitSlash(_)
SplitSlash(t) ==
    LET k == FirstIn(t, 1, {"/"})
    IN  IF k = 0 THEN <<t>>
        ELSE <<SubSeq(t, 1, k - 1)>> \o SplitSlash(SubSeq(t, k + 1, Len(t)))

Components(t) == SelectSeq(SplitSlash(t), LAMBDA part : part # <<>>)

\* file lies under os.path.join(search_dir, collection); an absolute
\* collection replaces search_dir, and no file of the model lies there
InCollection(file, collection) ==
    /\ collection[1] # "/"
    /\ IsPrefix(Components(collection), file.dir)

\* find_source_file(include_filename, directory): the files it can return
Candidates(name, collection) ==
    { file \in c_fs :
        /\ LowerSeq(file.name) = LowerSeq(name)
        /\ collection = <<>> \/ InCollection(file, collection) }

\* image_pattern of lines 68 and 92 matched at index i: "![", a lazy run
\* without newline, "](", a lazy run without newline, ")"
ImageMatchAt(t, i) ==
    IF ~(i + 1 <= Len(t) /\ t[i] = "!" /\ t[i + 1] = "[")
    THEN NoMatch
    ELSE LET ks  == {k \in (i + 2)..(Len(t) - 1) : t[k] = "]" /\ t[k + 1] = "("}
             k   == IF ks = {} THEN 0 ELSE CHOOSE n \in ks : \A m \in ks : n <= m
             nl1 == FirstIn(t, i + 2, {"NL"})
             r   == IF k = 0 THEN 0 ELSE FirstIn(t, k + 2, {")"})
             nl2 == IF k = 0 THEN 0 ELSE FirstIn(t, k + 2, {"NL"})
         IN  IF /\ k # 0
                /\ nl1 = 0 \/ nl1 > k
                /\ r # 0
                /\ nl2 = 0 \/ nl2 > r
             THEN [start |-> i, end |-> r,
                   alt  |-> SubSeq(t, i + 2, k - 1),
                   path |-> SubSeq(t, k + 2, r - 1)]
             ELSE NoMatch

NextImageMatch(t, pos) ==
    LET is == {i \in pos..Len(t) : ImageMatchAt(t, i).start # 0}
    IN  IF is = {} THEN NoMatch
        ELSE ImageMatchAt(t, CHOOSE i \in is : \A m \in is : i <= m)

\* extract_image_paths: the matches findall reports, from pos on
RECURSIVE ImagesFrom(_, _)
ImagesFrom(t, pos) ==
    LET m == NextImageMatch(t, pos)
    IN  IF m.start = 0 THEN <<>> ELSE <<m>> \o ImagesFrom(t, m.end + 1)

\* os.path.basename
Basename(path) ==
    LET ks == {k \in 1..Len(path) : path[k] = "/"}
    IN  IF ks = {} THEN path
        ELSE SubSeq(path, (CHOOSE k \in ks : \A m \in ks : m <= k) + 1, Len(path))

ImgPrefix == <<".", "/", "img", "/">>

\* a rewriting that keeps the directory part of the path
ImageReplacementKeepsPath(path) ==
    <<"!", "[", "]", "(">> \o ImgPrefix \o path \o <<")">>

\* replace_image_path: f"![](./img/{image_name})"
ImageReplacement(path) ==
    <<"!", "[", "]", "(">> \o ImgPrefix \o Basename(path) \o <<")">>

\* generate_frontmatter(title, position)
Frontmatter(title) ==
    <<"---", "NL", "title: ", "dq">> \o title \o
    <<"dq", "NL", "sidebar_position: n", "NL", "---", "NL", "NL">>

(* The texts of the model are built from segments.  An include segment     *)
(* records the reference it spells: its collection and its file name.      *)
QuotedA == [kind |-> "include", chars |-> IncludePrefix \o <<"'", "a", "M", "'">>,
            tail |-> <<>>, collection |-> <<>>, filename |-> <<"a", "M">>]
CollTA  == [kind |-> "include", chars |-> IncludePrefix \o <<"'", "t", ":", "a", "'">>,
            tail |-> <<>>, collection |-> <<"t">>, filename |-> <<"a">>]
CollUA  == [kind |-> "include", chars |-> IncludePrefix \o <<"'", "u", ":", "a", "'">>,
            tail |-> <<>>, collection |-> <<"u">>, filename |-> <<"a">>]
BareA   == [kind |-> "include", chars |-> IncludePrefix \o <<"a">>,
            tail |-> <<" ">>, collection |-> <<>>, filename |-> <<"a">>]
ImageSeg == [kind |-> "text", chars |-> <<"!", "[", "x", "]", "(", "d", "/", "i", ")">>, tail |-> <<>>]
NoteSeg  == [kind |-> "text", chars |-> <<"x", ":">>, tail |-> <<>>]
DontSeg  == [kind |-> "text", chars |-> <<"x", "'", "x">>, tail |-> <<>>]
LineSeg  == [kind |-> "text", chars |-> <<"x", "NL">>, tail |-> <<>>]

Segments == {QuotedA, CollTA, CollUA, BareA, ImageSeg, NoteSeg, DontSeg, LineSeg}

SegText(seg) == seg.chars \o seg.tail

\* the texts a file of the search directory may hold
FileTexts ==
    { <<"y">>,
      <<"y">> \o SegText(ImageSeg) \o <<"NL">>,
      <<"y", " ">> \o SegText(QuotedA) }

\* the search directory: empty, or one file A.md in the collection t
FileSystems ==
    {{}} \cup { {[dir |-> << <<"t">> >>, name |-> <<"A", "M">>, text |-> text]} :
                text \in FileTexts }

\* the titles parse_summary can return hold no "](": two of them
ContentTitles == { <<"T">>, <<"!", "[", "x">> }

ContentInit ==
    /\ c_fs \in FileSystems
    /\ c_segs \in SeqsUpTo(Segments, MaxSegs)
    /\ c_title \in ContentTitles
    /\ c_text = Concat([k \in 1..Len(c_segs) |-> SegText(c_segs[k])])
    /\ c_pos = 1
    /\ c_out = <<>>
    /\ c_included = <<>>
    /\ c_written = <<>>
    /\ c_pc = "include"

ContentIdle ==
    /\ c_fs = {}
    /\ c_segs = <<>>
    /\ c_title = <<>>
    /\ c_text = <<>>
    /\ c_pos = 1
    /\ c_out = <<>>
    /\ c_included = <<>>
    /\ c_written = <<>>
    /\ c_pc = "idle"

\* re.sub of line 238 reaches its next match: replace_include
IncludeReplace ==
    /\ c_pc = "include"
    /\ LET m == NextIncludeMatch(c_text, c_pos)
       IN  /\ m.start # 0
           /\ LET files == Candidates(WithMd(m.filename), m.collection)
              IN  \/ /\ files # {}
                     /\ \E file \in files :
                           c_out' = c_out \o SubSeq(c_text, c_pos, m.start - 1) \o file.text
                  \/ /\ files = {}
                     /\ c_out' = c_out \o SubSeq(c_text, c_pos, m.end)
           /\ c_pos' = m.end + 1
    /\ UNCHANGED <<c_fs, c_segs, c_title, c_text, c_included, c_written, c_pc>>
    /\ UNCHANGED notContent

\* re.sub of line 238 finds no further match: process_include_statements
\* returns, and update_image_paths starts on its result
IncludeReturn ==
    /\ c_pc = "include"
    /\ NextIncludeMatch(c_text, c_pos).start = 0
    /\ c_included' = c_out \o SubSeq(c_text, c_pos, Len(c_text))
    /\ c_text' = c_included'
    /\ c_pos' = 1
    /\ c_out' = <<>>
    /\ c_pc' = "images"
    /\ UNCHANGED <<c_fs, c_segs, c_title, c_written>>
    /\ UNCHANGED notContent

\* re.sub of line 102 reaches its next match: replace_image_path
ImageReplace ==
    /\ c_pc = "images"
    /\ LET m == NextImageMatch(c_text, c_pos)
       IN  /\ m.start # 0
           /\ c_out' = c_out \o SubSeq(c_text, c_pos, m.start - 1) \o ImageReplacement(m.path)
           /\ c_pos' = m.end + 1
    /\ UNCHANGED <<c_fs, c_segs, c_title, c_text, c_included, c_written, c_pc>>
    /\ UNCHANGED notContent

\* re.sub of line 102 finds no further match: update_image_paths returns,
\* and lines 312-316 write frontmatter + updated_content
WriteContent ==
    /\ c_pc = "images"
    /\ NextImageMatch(c_text, c_pos).start = 0
    /\ c_written' = Frontmatter(c_title) \o c_out \o SubSeq(c_text, c_pos, Len(c_text))
    /\ c_pc' = "done"
    /\ UNCHANGED <<c_fs, c_segs, c_title, c_text, c_pos, c_out, c_included>>
    /\ UNCHANGED notContent

(***************************************************************************)
(* verify_images_in_markdown                                               *)
(*                                                                         *)
(* The output tree has two directories with content files.  v_refs is the  *)
(* sequence of image references in the order the walk of line 157 and the  *)
(* loops of lines 158 and 166 reach them: each with the directory of its   *)
(* content file and the base name of its path.  v_img[d] is the set of     *)
(* files in the img directory beside the content files of d, v_imgdir[d]   *)
(* whether that directory exists.  v_src is the set of image files of the  *)
(* search directory outside the output tree; main() puts the output tree   *)
(* inside the search directory (v_nested), another caller need not.        *)
(* The function is run twice in a row (v_run).                             *)
(***************************************************************************)
MaxRefs == 2

VerifyDirs  == {"docs", "docs/guide"}
VerifyNames == [base : {"a"}, ext : {".gif", ".GIF", ".png"}]

\* the image files find_image_in_directory walks over
RootFiles ==
    v_src \cup (IF v_nested THEN UNION {v_img[d] : d \in VerifyDirs} ELSE {})

\* a lookup for the exact file name only
ImageSourcesExactName(image_name) == {file \in RootFiles : file = image_name}

\* find_image_in_directory(image_name, search_dir): the files it can return
ImageSources(image_name) == {file \in RootFiles : ImageMatch(file, image_name)}

\* a copy that keeps the source file's name, as line 131 does
CopyTargetOfSource(image_name, source) == source

\* image_file = os.path.join(img_dir, image_name): the copy's name
CopyTarget(image_name, source) == image_name

VerifyInit ==
    /\ v_refs \in SeqsUpTo([dir : VerifyDirs, name : VerifyNames], MaxRefs)
    /\ v_src \in SUBSET VerifyNames
    /\ v_nested \in BOOLEAN
    /\ v_imgdir \in {f \in [VerifyDirs -> BOOLEAN] : f["docs"]}
    /\ v_img \in {f \in [VerifyDirs -> SUBSET VerifyNames] : f["docs/guide"] = {}}
    /\ v_img0 = v_img
    /\ v_k = 0
    /\ missing_images = <<>>
    /\ v_log = <<>>
    /\ v_logExists = FALSE
    /\ v_wrote = FALSE
    /\ v_copies = 0
    /\ v_run = 1
    /\ v_log1 = <<>>
    /\ v_logExists1 = FALSE
    /\ v_copies1 = 0
    /\ v_pc = "scan"

VerifyIdle ==
    /\ v_refs = <<>>
    /\ v_src = {}
    /\ v_nested = FALSE
    /\ v_imgdir = <<>>
    /\ v_img = <<>>
    /\ v_img0 = <<>>
    /\ v_k = 0
    /\ missing_images = <<>>
    /\ v_log = <<>>
    /\ v_logExists = FALSE
    /\ v_wrote = FALSE
    /\ v_copies = 0
    /\ v_run = 1
    /\ v_log1 = <<>>
    /\ v_logExists1 = FALSE
    /\ v_copies1 = 0
    /\ v_pc = "idle"

\* lines 166-184 for one image reference; shutil.copy into a directory
\* that does not exist raises FileNotFoundError, which ends the run
VerifyRef ==
    /\ v_pc = "scan"
    /\ v_k < Len(v_refs)
    /\ LET d          == v_refs[v_k + 1].dir
           image_name == v_refs[v_k + 1].name
       IN  IF image_name \in v_img[d]
           THEN /\ v_k' = v_k + 1
                /\ UNCHANGED <<v_img, v_copies, missing_images, v_pc>>
           ELSE IF ImageSources(image_name) # {}
           THEN IF v_imgdir[d]
                THEN /\ \E source \in ImageSources(image_name) :
                           v_img' = [v_img EXCEPT ![d] = @ \cup {CopyTarget(image_name, source)}]
                     /\ v_copies' = v_copies + 1
                     /\ v_k' = v_k + 1
                     /\ UNCHANGED <<missing_images, v_pc>>
                ELSE /\ v_pc' = "crashed"
                     /\ UNCHANGED <<v_img, v_copies, missing_images, v_k>>
           ELSE /\ missing_images' = Append(missing_images, image_name)
                /\ v_k' = v_k + 1
                /\ UNCHANGED <<v_img, v_copies, v_pc>>
    /\ UNCHANGED <<v_refs, v_src, v_nested, v_imgdir, v_img0, v_log, v_logExists,
                   v_wrote, v_run, v_log1, v_logExists1, v_copies1>>
    /\ UNCHANGED notVerify

\* lines 186-191: the log is written when missing_images is not empty
VerifyFinish ==
    /\ v_pc = "scan"
    /\ v_k = Len(v_refs)
    /\ IF missing_images # <<>>
       THEN /\ v_log' = missing_images
            /\ v_logExists' = TRUE
            /\ v_wrote' = TRUE
       ELSE UNCHANGED <<v_log, v_logExists, v_wrote>>
    /\ v_pc' = "done"
    /\ UNCHANGED <<v_refs, v_src, v_nested, v_imgdir, v_img, v_img0, v_k,
                   missing_images, v_copies, v_run, v_log1, v_logExists1, v_copies1>>
    /\ UNCHANGED notVerify

\* the function is called again, directly after the first run
VerifyAgain ==
    /\ v_pc \in {"done", "crashed"}
    /\ v_run = 1
    /\ v_run' = 2
    /\ v_log1' = v_log
    /\ v_logExists1' = v_logExists
    /\ v_copies1' = v_copies
    /\ v_k' = 0
    /\ missing_images' = <<>>
    /\ v_copies' = 0
    /\ v_wrote' = FALSE
    /\ v_pc' = "scan"
    /\ UNCHANGED <<v_refs, v_src, v_nested, v_imgdir, v_img, v_img0, v_log, v_logExists>>
    /\ UNCHANGED notVerify

(***************************************************************************)
(* Specifications                                                          *)
(***************************************************************************)
InitParse == ParseInit /\ LookupIdle /\ TreeIdle /\ ContentIdle /\ VerifyIdle
NextParse == ParseLine \/ ParseReturn
SpecParse == InitParse /\ [][NextParse]_vars

InitLookup == LookupInit /\ ParseIdle /\ TreeIdle /\ ContentIdle /\ VerifyIdle
NextLookup == LookupVisit \/ LookupMiss
SpecLookup == InitLookup /\ [][NextLookup]_vars

InitTree == TreeInit /\ ParseIdle /\ LookupIdle /\ ContentIdle /\ VerifyIdle
NextTree == PrePass \/ ProcessNode \/ TreeReturn
SpecTree == InitTree /\ [][NextTree]_vars

InitContent == ContentInit /\ ParseIdle /\ LookupIdle /\ TreeIdle /\ VerifyIdle
NextContent == IncludeReplace \/ IncludeReturn \/ ImageReplace \/ WriteContent
SpecContent == InitContent /\ [][NextContent]_vars

InitVerify == VerifyInit /\ ParseIdle /\ LookupIdle /\ TreeIdle /\ ContentIdle
NextVerify == VerifyRef \/ VerifyFinish \/ VerifyAgain
SpecVerify == InitVerify /\ [][NextVerify]_vars

(***************************************************************************)
(* Claims about parse_summary                                              *)
(***************************************************************************)
MatchedLines == { n \in 1..p_position : EntryMatch(lines[n]) }

\* C9: parse_summary returns exactly one node per line matching the entry
\* pattern, in document order, and none for any other line; a node's
\* position is the 1-based number of its line among all lines, so the
\* positions are strictly increasing and unique.
C9_OneNodePerMatchedLine ==
    /\ Len(p_hierarchy) = Cardinality(MatchedLines)
    /\ \A j \in 1..Len(p_hierarchy) :
          /\ p_hierarchy[j].position \in MatchedLines
          /\ p_hierarchy[j].indentation = lines[p_hierarchy[j].position].indent
          /\ p_hierarchy[j].title = Strip(lines[p_hierarchy[j].position].title)
          /\ p_hierarchy[j].filename = lines[p_hierarchy[j].position].stem
    /\ \A j, k \in 1..Len(p_hierarchy) :
          j < k => p_hierarchy[j].position < p_hierarchy[k].position

\* an outline whose first line is no entry and whose later lines are: the
\* nodes carry the line numbers 2 and 3
C9_Witness ==
    /\ p_pc = "done"
    /\ Len(lines) = 3
    /\ ~EntryMatch(lines[1])
    /\ Len(p_hierarchy) = 2
    /\ p_hierarchy[1].position = 2
    /\ p_hierarchy[2].position = 3

(***************************************************************************)
(* Claims about find_image_in_directory                                    *)
(***************************************************************************)
\* the match the specification describes: same base name without regard to
\* case, and the target's own extension or one of .jpg, .jpeg, .png
ClaimedImageMatch(file, image_name) ==
    /\ Lower(file.base) = Lower(image_name.base)
    /\ Lower(file.ext) \in {Lower(image_name.ext), ".jpg", ".jpeg", ".png"}

\* C8: find_image_in_directory(name, root) returns a file under root
\* whenever root holds a file whose base name equals the target's base name
\* case-insensitively and whose extension is the target's own extension or
\* one of .jpg, .jpeg, .png, whatever the letter case of the target's
\* extension, and returns not-found otherwise.
C8_FindImageByLooseExtension ==
    lk_pc = "done" =>
        /\ (lk_result # None) <=> (\E file \in lk_files : ClaimedImageMatch(file, lk_name))
        /\ lk_result # None => lk_result \in lk_files

(***************************************************************************)
(* Claims about create_directory_structure                                 *)
(***************************************************************************)
Filename(k) == hierarchy[k].filename

\* the cursor before node k is processed
LevelBefore(k) == IF k = 1 THEN 0 ELSE Level(hierarchy[k - 1])
PathBefore(k)  == IF k = 1 THEN OutputDir ELSE t_cursor[k - 1]

\* C1: a found node whose immediately following node has strictly greater
\* depth has its content file at <currentPath>/<own stem>/<filename> with
\* the grouping metadata of that subdirectory carrying its own title and
\* position; every other found node has its content file at
\* <currentPath>/<filename>.
C1_PlacementFollowsNextNodeDepth ==
    \A k \in 1..t_i :
        Filename(k) \in t_found =>
            IF k < Len(hierarchy) /\ hierarchy[k + 1].indentation > hierarchy[k].indentation
            THEN /\ t_dest[k] = [dir |-> Append(t_cursor[k], Filename(k)), name |-> Filename(k)]
                 /\ t_cat[k] = [dir      |-> Append(t_cursor[k], Filename(k)),
                                label    |-> hierarchy[k].title,
                                position |-> hierarchy[k].position]
            ELSE t_dest[k] = [dir |-> t_cursor[k], name |-> Filename(k)]

\* C2: every node (the first one included) whose level is greater than the
\* cursor's current level has a node immediately preceding it in the
\* outline, and the cursor descends into the directory beneath the current
\* path named after that node's stem, where the grouping metadata written
\* has that node's title and position.
C2_DescentNamedAfterPrecedingNode ==
    \A k \in 1..t_i :
        Level(hierarchy[k]) > LevelBefore(k) =>
            /\ k - 1 \in DOMAIN hierarchy
            /\ t_cursor[k] = Append(PathBefore(k), Filename(k - 1))
            /\ t_descent[k] = [dir      |-> Append(PathBefore(k), Filename(k - 1)),
                               label    |-> hierarchy[k - 1].title,
                               position |-> hierarchy[k - 1].position]

\* the run in which every source file exists: its cursor after node k
RECURSIVE AllFoundCursor(_)
AllFoundCursor(k) ==
    IF k = 0
    THEN [level |-> 0, path |-> OutputDir]
    ELSE AdjustCursor(hierarchy, k, AllFoundCursor(k - 1))

\* and the destination of node k in that run
AllFoundDestination(k) ==
    IF Filename(k) \in HasChildren(hierarchy)
    THEN [dir |-> Append(AllFoundCursor(k).path, Filename(k)), name |-> Filename(k)]
    ELSE [dir |-> AllFoundCursor(k).path, name |-> Filename(k)]

\* C3: a node whose source file is not found gets no content file; every
\* other node is still processed, in outline order, and written to the
\* destination it has in the run where every source file exists.
C3_MissingSourceOnlySkipsItsNode ==
    /\ Len(t_dest) = t_i
    /\ t_pc = "done" => t_i = Len(hierarchy)
    /\ \A k \in 1..t_i :
          IF Filename(k) \in t_found
          THEN t_dest[k] = AllFoundDestination(k)
          ELSE t_dest[k] = None

\* a missing node with children is followed by its child, which is written
\* one level deeper, and by a later node written after the ascent
C3_Witness ==
    /\ t_pc = "done"
    /\ Len(hierarchy) = 3
    /\ Filename(1) \notin t_found
    /\ Filename(2) \in t_found
    /\ Level(hierarchy[2]) > Level(hierarchy[1])
    /\ Level(hierarchy[3]) < Level(hierarchy[2])
    /\ t_dest[1] = None
    /\ t_dest[2] # None
    /\ t_dest[3] # None

\* C10: after each node the cursor current_path is the output root or a
\* directory beneath it, and so is every directory in which a content file,
\* a grouping metadata file or an img directory is created.
C10_CursorStaysInsideOutputRoot ==
    t_pc # "idle" =>
        /\ IsPrefix(OutputDir, current_path)
        /\ \A d \in t_dirs : IsPrefix(OutputDir, d)

(***************************************************************************)
(* Claims about the content resolver                                       *)
(***************************************************************************)
\* the files an include segment's reference names: in the collection's
\* directory when a collection is given, anywhere otherwise
ClaimedTargets(seg) ==
    { file \in c_fs :
        /\ LowerSeq(file.name) = LowerSeq(WithMd(seg.filename))
        /\ \/ seg.collection = <<>>
           \/ file.dir # <<>> /\ file.dir[1] = seg.collection }

\* what the claim makes of one segment
ExpectedSegment(seg) ==
    IF seg.kind = "include" /\ ClaimedTargets(seg) # {}
    THEN (CHOOSE file \in ClaimedTargets(seg) : TRUE).text \o seg.tail
    ELSE SegText(seg)

\* C6: process_include_statements is a single substitution pass: every
\* include macro whose target is found is replaced by the target file's
\* full text, include macros inside it left verbatim; every macro whose
\* target is not found is left verbatim; the text outside the macros is
\* unchanged.
C6_SinglePassIncludeSubstitution ==
    c_pc \in {"images", "done"} =>
        c_included = Concat([k \in 1..Len(c_segs) |-> ExpectedSegment(c_segs[k])])

Canonical(m) ==
    /\ m.alt = <<>>
    /\ IsPrefix(ImgPrefix, m.path)
    /\ \A k \in (Len(ImgPrefix) + 1)..Len(m.path) : m.path[k] # "/"

\* C7: every image reference of a written content file, those that came
\* in through an expanded include too, has the form ![](./img/<basename>)
\* with empty alt text.
C7_WrittenImagesAreCanonical ==
    c_pc = "done" =>
        \A k \in 1..Len(ImagesFrom(c_written, 1)) : Canonical(ImagesFrom(c_written, 1)[k])

\* the source text holds no image of its own; the include it holds is
\* expanded to a file's text with an image, which is written rewritten
C7_Witness ==
    /\ c_pc = "done"
    /\ c_segs = <<CollTA>>
    /\ \E file \in c_fs : ImagesFrom(file.text, 1) # <<>>
    /\ Len(ImagesFrom(c_written, 1)) = 1
    /\ ImagesFrom(c_written, 1)[1].path = ImgPrefix \o <<"i">>

(***************************************************************************)
(* Claims about verify_images_in_markdown                                  *)
(***************************************************************************)
\* C4: a second run directly after a first one copies no image and leaves
\* the diagnostics log with the content it had after the first run (or
\* still absent).
C4_SecondRunChangesNothing ==
    v_run = 2 =>
        /\ v_copies = 0
        /\ v_pc # "scan" => (v_log = v_log1 /\ v_logExists = v_logExists1)

\* the first run copied an image and logged a missing one; the second run
\* has finished
C4_Witness ==
    /\ v_run = 2
    /\ v_pc = "done"
    /\ v_copies1 > 0
    /\ v_logExists1

\* every reference has a file of its name in the img directory beside its
\* content file, or its name is in the log
EveryReferenceSettled ==
    \A k \in 1..Len(v_refs) :
        \/ v_refs[k].name \in v_img[v_refs[k].dir]
        \/ v_logExists /\ \E n \in 1..Len(v_log) : v_log[n] = v_refs[k].name

\* C5 as stated: after the pass every reference is settled, and the log is
\* written if and only if at least one referenced image cannot be found
\* anywhere in the search root.
C5_LogIffSomeImageNotInSearchRoot ==
    (v_run = 1 /\ v_pc = "done") =>
        /\ EveryReferenceSettled
        /\ v_wrote <=> (\E k \in 1..Len(v_refs) :
                           \A file \in RootFiles : ~ImageMatch(file, v_refs[k].name))

\* the files of the search root before the pass
RootFiles0 ==
    v_src \cup (IF v_nested THEN UNION {v_img0[d] : d \in VerifyDirs} ELSE {})

\* C5 as amended: after the pass every reference is settled, and the log is
\* written if and only if at least one referenced image was absent from
\* the img directory beside its content file and could not be found
\* anywhere in the search root.
C5_LogIffSomeImageAbsentAndNotFound ==
    (v_run = 1 /\ v_pc = "done") =>
        /\ EveryReferenceSettled
        /\ v_wrote <=> (\E k \in 1..Len(v_refs) :
                           /\ v_refs[k].name \notin v_img0[v_refs[k].dir]
                           /\ \A file \in RootFiles0 : ~ImageMatch(file, v_refs[k].name))

\* one reference was copied in and another one was logged
C5_Witness ==
    /\ v_run = 1
    /\ v_pc = "done"
    /\ v_wrote
    /\ v_copies > 0

=============================================================================
